---- MODULE Spec2Model ----
(***************************************************************************)
(* The Session of simple-auth (lib/simple-auth/session.js) as a state      *)
(* machine: its properties, the Store snapshot it writes, the listeners it *)
(* registers on the Authenticators, and the Authenticator promises it      *)
(* waits on.  One action per method call, promise settlement and pushed    *)
(* event; every action is the whole handler.                               *)
(***************************************************************************)
EXTENDS Naturals, Sequences, FiniteSets

\* ------------------------------------------------------------------ bounds

\* How many Authenticator promises may be unsettled at once.
MaxPending == 2

\* ------------------------------------------------------------------ values

\* The authenticator factories registered with the container.
Factories == {"A", "B"}

\* The value of `authenticatorFactory` while nothing is bound (JavaScript null).
Null == "NULL"

\* Error payloads an Authenticator may reject with.
Errors == {"e1", "e2"}

\* The keys a content / snapshot object may carry.  An Authenticator is free
\* to resolve with data that itself has an `authenticatorFactory` key.
Keys == {"authenticatorFactory", "token"}

\* The values the Authenticators put under a key of the data they resolve with.
ValuesOf(k) == IF k = "authenticatorFactory" THEN {"B"} ELSE {"t1"}

\* The data an Authenticator may resolve with: JavaScript objects over Keys,
\* as functions from the keys present.
Contents ==
  { m \in UNION { [S -> {"B", "t1"}] : S \in SUBSET Keys } :
      \A k \in DOMAIN m : m[k] \in ValuesOf(k) }

\* {}
Empty == [k \in {} |-> ""]

\* { authenticatorFactory: f }
FactoryField(f) == [k \in {"authenticatorFactory"} |-> f]

ExtendLeftWins(target, object) ==
  [k \in DOMAIN target \cup DOMAIN object |->
     IF k \in DOMAIN target THEN target[k] ELSE object[k]]

\* Ember.$.extend(target, object): the keys of both, object's values winning.
Extend(target, object) ==
  [k \in DOMAIN target \cup DOMAIN object |->
     IF k \in DOMAIN object THEN object[k] ELSE target[k]]

\* `delete object.authenticatorFactory`
DeleteFactory(object) ==
  [k \in DOMAIN object \ {"authenticatorFactory"} |-> object[k]]

\* `object.authenticatorFactory`, Null when the key is absent (undefined).
FactoryOf(object) ==
  IF "authenticatorFactory" \in DOMAIN object
  THEN object["authenticatorFactory"] ELSE Null

\* `!!authenticatorFactory`: undefined, null and the empty string are falsy.
Truthy(f) == f # Null /\ f # ""

\* container.lookup(f) yields an Authenticator only for a registered factory;
\* for null it yields nothing and the call made on the result throws.
CanLookup(f) == f \in Factories

\* Store#clear and Store#replace.
StoreClear == Empty

StoreReplace(data) == data

\* What a Store may hold when the Session is constructed, and what it may push
\* with sessionDataUpdated: nothing, or what a session (of an earlier page load,
\* of another tab) persisted.
Snapshots ==
  {Empty} \cup { Extend(FactoryField(f), c) : f \in Factories, c \in Contents }

\* ------------------------------------------------------------------- state

VARIABLES
  isAuthenticated,       \* Session#isAuthenticated
  authenticatorFactory,  \* Session#authenticatorFactory
  content,               \* Session#content
  store,                 \* the snapshot held by Session#store
  updatedListeners,      \* per Authenticator: session listeners for sessionDataUpdated
  invalidatedListeners,  \* per Authenticator: session listeners for sessionDataInvalidated
  storeListeners,        \* the session's listeners for the Store's sessionDataUpdated
  pending,               \* the Authenticator promises not yet settled, in call order
  last,                  \* the handler that ran last and what it was given
  effects                \* what that handler emitted and settled, in order

vars == <<isAuthenticated, authenticatorFactory, content, store,
          updatedListeners, invalidatedListeners, storeListeners, pending,
          last, effects>>

\* What a listener of a session event observes when the event is triggered.
Seen ==
  [isAuthenticated |-> isAuthenticated,
   authenticatorFactory |-> authenticatorFactory,
   content |-> content,
   store |-> store]

Event(name, arg, seen) == [kind |-> "event", name |-> name, arg |-> arg, seen |-> seen]

Settle(name, arg, seen) == [kind |-> "settle", name |-> name, arg |-> arg, seen |-> seen]

\* An unsettled promise of the Authenticator of factory f, asked for by `op`.
\* For an authenticate call it remembers whether the session was
\* unauthenticated when the call was made.
Promise(op, f) ==
  [op |-> op, factory |-> f,
   calledUnauthenticated |-> (op = "authenticate" /\ ~isAuthenticated)]

\* The handler `op` ran: for factory f, given the resolved content c or the
\* error e, passing `trigger` to setup / clear; `threw` when it ended in an
\* exception.  wasAuthenticated is isAuthenticated as the handler found it.
\* `data` is what the handler passed on to the Authenticator it called,
\* `payload` what the Store pushed to it.
Ran(op, f, c, e, trigger, threw, data) ==
  [op |-> op, factory |-> f, resolved |-> c, error |-> e, trigger |-> trigger,
   threw |-> threw, data |-> data, wasAuthenticated |-> isAuthenticated,
   calledUnauthenticated |-> FALSE, payload |-> Empty]

\* The same for the handler of a settled promise p.
Settled(p, op, c, e, trigger) ==
  [Ran(op, p.factory, c, e, trigger, FALSE, Empty)
     EXCEPT !.calledUnauthenticated = p.calledUnauthenticated]

RemoveAt(s, i) == SubSeq(s, 1, i - 1) \o SubSeq(s, i + 1, Len(s))

Init ==
  /\ isAuthenticated = FALSE
  /\ authenticatorFactory = Null
  /\ content = Empty
  /\ store \in Snapshots
  /\ updatedListeners = [a \in Factories |-> 0]
  /\ invalidatedListeners = [a \in Factories |-> 0]
  /\ storeListeners = 1
  /\ pending = <<>>
  /\ last = [op |-> "init", factory |-> Null, resolved |-> Empty, error |-> Null,
             trigger |-> FALSE, threw |-> FALSE, data |-> Empty,
             wasAuthenticated |-> FALSE, calledUnauthenticated |-> FALSE,
             payload |-> Empty]
  /\ effects = <<>>

\* ------------------------------------------------- setup, clear, listeners

\* Evented#off(name) removes every listener of the event, Evented#on adds one.
Off(ls, a) == [ls EXCEPT ![a] = 0]

On(ls, a) == [ls EXCEPT ![a] = @ + 1]

\* `trigger = !!trigger && !this.get('isAuthenticated')`
setupTriggerLevel(trigger, wasAuthenticated) == trigger

setupTriggerUnasked(trigger, wasAuthenticated) == ~wasAuthenticated

setupTrigger(trigger, wasAuthenticated) == trigger /\ ~wasAuthenticated

\* `trigger = !!trigger && this.get('isAuthenticated')`
clearTriggerLevel(trigger, wasAuthenticated) == trigger

clearTrigger(trigger, wasAuthenticated) == trigger /\ wasAuthenticated

bindToAuthenticatorEventsAgain(f) ==
  /\ updatedListeners' = On(updatedListeners, f)
  /\ invalidatedListeners' = On(invalidatedListeners, f)

\* bindToAuthenticatorEvents, for the Authenticator of the factory f that
\* setup has just stored in this.authenticatorFactory.
bindToAuthenticatorEvents(f) ==
  /\ updatedListeners' = On(Off(updatedListeners, f), f)
  /\ invalidatedListeners' = On(Off(invalidatedListeners, f), f)

\* setup(authenticatorFactory, content, trigger).  The three properties are
\* set first; with no Authenticator to look up (factory null) the call made
\* on the lookup's result throws, before the Store is written.
setup(f, c, trigger) ==
  /\ isAuthenticated' = TRUE
  /\ authenticatorFactory' = f
  /\ content' = c
  /\ IF CanLookup(f)
     THEN /\ bindToAuthenticatorEvents(f)
          /\ store' = StoreReplace(Extend(FactoryField(f), c))
     ELSE UNCHANGED <<updatedListeners, invalidatedListeners, store>>

\* What setup emits, once the state above is in place.
setupEffects(f, trigger) ==
  IF CanLookup(f) /\ setupTrigger(trigger, isAuthenticated)
  THEN <<Event("sessionAuthenticationSucceeded", Null, Seen')>>
  ELSE <<>>

\* clear(trigger); the listeners on the Authenticators are not touched.
clear(trigger) ==
  /\ isAuthenticated' = FALSE
  /\ authenticatorFactory' = Null
  /\ content' = Empty
  /\ store' = StoreClear

clearEffects(trigger) ==
  IF clearTrigger(trigger, isAuthenticated)
  THEN <<Event("sessionInvalidationSucceeded", Null, Seen')>>
  ELSE <<>>

\* ---------------------------------------------------------- authenticate

\* authenticate(f, options) with an empty factory; nothing is changed.  The
\* outcome depends on the build: with assertions on, Ember.assert throws out
\* of the call and no result is returned; with assertions stripped, the lookup
\* yields nothing, the call on it throws inside the promise and the returned
\* promise rejects.
authenticateEmpty ==
  /\ last' = Ran("authenticate.empty", "", Empty, Null, FALSE, TRUE, Empty)
  /\ \/ effects' = <<>>
     \/ effects' = <<Settle("reject", "thrown", Seen)>>
  /\ UNCHANGED <<isAuthenticated, authenticatorFactory, content, store,
                 updatedListeners, invalidatedListeners, pending>>
  /\ UNCHANGED storeListeners

authenticateCoalescing(f) ==
  /\ Len(pending) < MaxPending
  /\ pending' = IF \E i \in 1..Len(pending) :
                     pending[i].op = "authenticate" /\ pending[i].factory = f
                THEN pending
                ELSE Append(pending, Promise("authenticate", f))
  /\ last' = Ran("authenticate", f, Empty, Null, FALSE, FALSE, Empty)
  /\ effects' = <<>>
  /\ UNCHANGED <<isAuthenticated, authenticatorFactory, content, store,
                 updatedListeners, invalidatedListeners>>
  /\ UNCHANGED storeListeners

\* authenticate(f, options): the Authenticator's authenticate is invoked.
authenticate(f) ==
  /\ Len(pending) < MaxPending
  /\ pending' = Append(pending, Promise("authenticate", f))
  /\ last' = Ran("authenticate", f, Empty, Null, FALSE, FALSE, Empty)
  /\ effects' = <<>>
  /\ UNCHANGED <<isAuthenticated, authenticatorFactory, content, store,
                 updatedListeners, invalidatedListeners>>
  /\ UNCHANGED storeListeners

\* The Authenticator resolves pending[i] with content c.
authenticateResolved(i, c) ==
  /\ pending[i].op = "authenticate"
  /\ setup(pending[i].factory, c, TRUE)
  /\ pending' = RemoveAt(pending, i)
  /\ last' = Settled(pending[i], "authenticate.resolved", c, Null, TRUE)
  /\ effects' = setupEffects(pending[i].factory, TRUE)
                  \o <<Settle("resolve", Null, Seen')>>
  /\ UNCHANGED storeListeners

\* The Authenticator rejects pending[i] with error e.
authenticateRejectedEarly(i, e) ==
  /\ pending[i].op = "authenticate"
  /\ clear(FALSE)
  /\ UNCHANGED <<updatedListeners, invalidatedListeners>>
  /\ pending' = RemoveAt(pending, i)
  /\ last' = Settled(pending[i], "authenticate.rejected", Empty, e, FALSE)
  /\ effects' = clearEffects(FALSE)
                  \o <<Settle("reject", e, Seen'),
                       Event("sessionAuthenticationFailed", e, Seen')>>
  /\ UNCHANGED storeListeners

authenticateRejectedTriggering(i, e) ==
  /\ pending[i].op = "authenticate"
  /\ clear(TRUE)
  /\ UNCHANGED <<updatedListeners, invalidatedListeners>>
  /\ pending' = RemoveAt(pending, i)
  /\ last' = Settled(pending[i], "authenticate.rejected", Empty, e, TRUE)
  /\ effects' = clearEffects(TRUE)
                  \o <<Event("sessionAuthenticationFailed", e, Seen'),
                       Settle("reject", e, Seen')>>
  /\ UNCHANGED storeListeners

authenticateRejected(i, e) ==
  /\ pending[i].op = "authenticate"
  /\ clear(FALSE)
  /\ UNCHANGED <<updatedListeners, invalidatedListeners>>
  /\ pending' = RemoveAt(pending, i)
  /\ last' = Settled(pending[i], "authenticate.rejected", Empty, e, FALSE)
  /\ effects' = clearEffects(FALSE)
                  \o <<Event("sessionAuthenticationFailed", e, Seen'),
                       Settle("reject", e, Seen')>>
  /\ UNCHANGED storeListeners

\* ------------------------------------------------------------ invalidate

\* invalidate() with no factory bound: the lookup yields nothing, the call on
\* it throws inside the promise and the promise rejects; nothing is changed.
invalidateUnbound ==
  /\ ~CanLookup(authenticatorFactory)
  /\ last' = Ran("invalidate.unbound", authenticatorFactory, Empty, Null, FALSE, TRUE, Empty)
  /\ effects' = <<Settle("reject", "thrown", Seen)>>
  /\ UNCHANGED <<isAuthenticated, authenticatorFactory, content, store,
                 updatedListeners, invalidatedListeners, pending>>
  /\ UNCHANGED storeListeners

\* invalidate(): the bound Authenticator's invalidate is invoked; the promise
\* keeps that Authenticator.
invalidate ==
  /\ CanLookup(authenticatorFactory)
  /\ Len(pending) < MaxPending
  /\ pending' = Append(pending, Promise("invalidate", authenticatorFactory))
  /\ last' = Ran("invalidate", authenticatorFactory, Empty, Null, FALSE, FALSE, content)
  /\ effects' = <<>>
  /\ UNCHANGED <<isAuthenticated, authenticatorFactory, content, store,
                 updatedListeners, invalidatedListeners>>
  /\ UNCHANGED storeListeners

invalidateResolvedKeeping(i) ==
  /\ pending[i].op = "invalidate"
  /\ UNCHANGED <<updatedListeners, invalidatedListeners>>
  /\ clear(TRUE)
  /\ pending' = RemoveAt(pending, i)
  /\ last' = Settled(pending[i], "invalidate.resolved", Empty, Null, TRUE)
  /\ effects' = clearEffects(TRUE) \o <<Settle("resolve", Null, Seen')>>
  /\ UNCHANGED storeListeners

\* The Authenticator's invalidate resolves.
invalidateResolved(i) ==
  /\ pending[i].op = "invalidate"
  /\ updatedListeners' = Off(updatedListeners, pending[i].factory)
  /\ UNCHANGED invalidatedListeners
  /\ clear(TRUE)
  /\ pending' = RemoveAt(pending, i)
  /\ last' = Settled(pending[i], "invalidate.resolved", Empty, Null, TRUE)
  /\ effects' = clearEffects(TRUE) \o <<Settle("resolve", Null, Seen')>>
  /\ UNCHANGED storeListeners

invalidateRejectedClearing(i, e) ==
  /\ pending[i].op = "invalidate"
  /\ clear(FALSE)
  /\ UNCHANGED <<updatedListeners, invalidatedListeners>>
  /\ pending' = RemoveAt(pending, i)
  /\ last' = Settled(pending[i], "invalidate.rejected", Empty, e, FALSE)
  /\ effects' = <<Event("sessionInvalidationFailed", e, Seen'),
                  Settle("reject", e, Seen')>>
  /\ UNCHANGED storeListeners

\* The Authenticator's invalidate rejects with error e.
invalidateRejected(i, e) ==
  /\ pending[i].op = "invalidate"
  /\ pending' = RemoveAt(pending, i)
  /\ last' = Settled(pending[i], "invalidate.rejected", Empty, e, FALSE)
  /\ effects' = <<Event("sessionInvalidationFailed", e, Seen),
                  Settle("reject", e, Seen)>>
  /\ UNCHANGED <<isAuthenticated, authenticatorFactory, content, store,
                 updatedListeners, invalidatedListeners>>
  /\ UNCHANGED storeListeners

\* --------------------------------------------------------------- restore

\* restore(): the snapshot carries no (truthy) authenticatorFactory.
restoreNothing ==
  /\ ~Truthy(FactoryOf(store))
  /\ store' = StoreClear
  /\ UNCHANGED <<isAuthenticated, authenticatorFactory, content,
                 updatedListeners, invalidatedListeners, pending>>
  /\ last' = Ran("restore.nothing", Null, Empty, Null, FALSE, FALSE, Empty)
  /\ effects' = <<Settle("reject", Null, Seen')>>
  /\ UNCHANGED storeListeners

\* restore(): the snapshot's Authenticator is asked to restore the rest of it.
restore ==
  /\ Truthy(FactoryOf(store))
  /\ Len(pending) < MaxPending
  /\ pending' = Append(pending, Promise("restore", FactoryOf(store)))
  /\ last' = Ran("restore", FactoryOf(store), Empty, Null, FALSE, FALSE, DeleteFactory(store))
  /\ effects' = <<>>
  /\ UNCHANGED <<isAuthenticated, authenticatorFactory, content, store,
                 updatedListeners, invalidatedListeners>>
  /\ UNCHANGED storeListeners

restoreResolvedTriggering(i, c) ==
  /\ pending[i].op = "restore"
  /\ setup(pending[i].factory, c, TRUE)
  /\ pending' = RemoveAt(pending, i)
  /\ last' = Settled(pending[i], "restore.resolved", c, Null, TRUE)
  /\ effects' = setupEffects(pending[i].factory, TRUE)
                  \o <<Settle("resolve", Null, Seen')>>
  /\ UNCHANGED storeListeners

\* The Authenticator's restore resolves with content c.
restoreResolved(i, c) ==
  /\ pending[i].op = "restore"
  /\ setup(pending[i].factory, c, FALSE)
  /\ pending' = RemoveAt(pending, i)
  /\ last' = Settled(pending[i], "restore.resolved", c, Null, FALSE)
  /\ effects' = setupEffects(pending[i].factory, FALSE)
                  \o <<Settle("resolve", Null, Seen')>>
  /\ UNCHANGED storeListeners

restoreRejectedClearing(i) ==
  /\ pending[i].op = "restore"
  /\ clear(TRUE)
  /\ pending' = RemoveAt(pending, i)
  /\ last' = Settled(pending[i], "restore.rejected", Empty, Null, TRUE)
  /\ effects' = clearEffects(TRUE) \o <<Settle("reject", Null, Seen')>>
  /\ UNCHANGED <<updatedListeners, invalidatedListeners>>
  /\ UNCHANGED storeListeners

\* The Authenticator's restore rejects.
restoreRejected(i) ==
  /\ pending[i].op = "restore"
  /\ store' = StoreClear
  /\ UNCHANGED <<isAuthenticated, authenticatorFactory, content,
                 updatedListeners, invalidatedListeners>>
  /\ pending' = RemoveAt(pending, i)
  /\ last' = Settled(pending[i], "restore.rejected", Empty, Null, FALSE)
  /\ effects' = <<Settle("reject", Null, Seen')>>
  /\ UNCHANGED storeListeners

\* ------------------------------------------------------ pushed by the Store

\* The Store pushes sessionDataUpdated(payload) without an authenticatorFactory.
storeDataClearedSilently(payload) ==
  /\ storeListeners > 0
  /\ ~Truthy(FactoryOf(payload))
  /\ clear(FALSE)
  /\ last' = [Ran("store.cleared", Null, Empty, Null, TRUE, FALSE, Empty)
                EXCEPT !.payload = payload]
  /\ effects' = clearEffects(FALSE)
  /\ UNCHANGED <<updatedListeners, invalidatedListeners, pending>>
  /\ UNCHANGED storeListeners

storeDataCleared(payload) ==
  /\ storeListeners > 0
  /\ ~Truthy(FactoryOf(payload))
  /\ clear(TRUE)
  /\ last' = [Ran("store.cleared", Null, Empty, Null, TRUE, FALSE, Empty)
                EXCEPT !.payload = payload]
  /\ effects' = clearEffects(TRUE)
  /\ UNCHANGED <<updatedListeners, invalidatedListeners, pending>>
  /\ UNCHANGED storeListeners

\* The Store pushes sessionDataUpdated(payload) with an authenticatorFactory.
storeDataUpdated(payload) ==
  /\ storeListeners > 0
  /\ Truthy(FactoryOf(payload))
  /\ Len(pending) < MaxPending
  /\ pending' = Append(pending, Promise("store.restore", FactoryOf(payload)))
  /\ last' = [Ran("store.updated", FactoryOf(payload), Empty, Null, FALSE, FALSE,
                  DeleteFactory(payload))
                EXCEPT !.payload = payload]
  /\ effects' = <<>>
  /\ UNCHANGED <<isAuthenticated, authenticatorFactory, content, store,
                 updatedListeners, invalidatedListeners>>
  /\ UNCHANGED storeListeners

\* The restore asked for by the Store handler resolves with content c.
storeRestoreResolved(i, c) ==
  /\ pending[i].op = "store.restore"
  /\ setup(pending[i].factory, c, TRUE)
  /\ pending' = RemoveAt(pending, i)
  /\ last' = Settled(pending[i], "store.restore.resolved", c, Null, TRUE)
  /\ effects' = setupEffects(pending[i].factory, TRUE)
  /\ UNCHANGED storeListeners

\* The restore asked for by the Store handler rejects.
storeRestoreRejectedStoreOnly(i) ==
  /\ pending[i].op = "store.restore"
  /\ store' = StoreClear
  /\ UNCHANGED <<isAuthenticated, authenticatorFactory, content,
                 updatedListeners, invalidatedListeners>>
  /\ pending' = RemoveAt(pending, i)
  /\ last' = Settled(pending[i], "store.restore.rejected", Empty, Null, TRUE)
  /\ effects' = <<>>
  /\ UNCHANGED storeListeners

storeRestoreRejected(i) ==
  /\ pending[i].op = "store.restore"
  /\ clear(TRUE)
  /\ pending' = RemoveAt(pending, i)
  /\ last' = Settled(pending[i], "store.restore.rejected", Empty, Null, TRUE)
  /\ effects' = clearEffects(TRUE)
  /\ UNCHANGED <<updatedListeners, invalidatedListeners>>
  /\ UNCHANGED storeListeners

\* ------------------------------------------------ pushed by an Authenticator

\* Authenticator a triggers sessionDataUpdated(c): the listener the session
\* left on it runs setup with the factory the session holds now.
authenticatorDataUpdated(a, c) ==
  /\ updatedListeners[a] > 0
  /\ setup(authenticatorFactory, c, FALSE)
  /\ last' = Ran("authenticator.updated", a, c, Null, FALSE,
                 ~CanLookup(authenticatorFactory), Empty)
  /\ effects' = setupEffects(authenticatorFactory, FALSE)
  /\ UNCHANGED pending
  /\ UNCHANGED storeListeners

authenticatorDataInvalidatedSilently(a) ==
  /\ invalidatedListeners[a] > 0
  /\ clear(FALSE)
  /\ last' = Ran("authenticator.invalidated", a, Empty, Null, TRUE, FALSE, Empty)
  /\ effects' = clearEffects(FALSE)
  /\ UNCHANGED <<updatedListeners, invalidatedListeners, pending>>
  /\ UNCHANGED storeListeners

\* Authenticator a triggers sessionDataInvalidated.
authenticatorDataInvalidated(a) ==
  /\ invalidatedListeners[a] > 0
  /\ clear(TRUE)
  /\ last' = Ran("authenticator.invalidated", a, Empty, Null, TRUE, FALSE, Empty)
  /\ effects' = clearEffects(TRUE)
  /\ UNCHANGED <<updatedListeners, invalidatedListeners, pending>>
  /\ UNCHANGED storeListeners

\* Authenticator a triggers an event the session has no listener for.
authenticatorUnheard(a) ==
  /\ updatedListeners[a] = 0 \/ invalidatedListeners[a] = 0
  /\ last' = Ran("authenticator.unheard", a, Empty, Null, FALSE, FALSE, Empty)
  /\ effects' = <<>>
  /\ UNCHANGED <<isAuthenticated, authenticatorFactory, content, store,
                 updatedListeners, invalidatedListeners, pending>>
  /\ UNCHANGED storeListeners



\* ------------------------------------------------------------ specification

Next ==
  \/ authenticateEmpty
  \/ \E f \in Factories : authenticate(f)
  \/ \E i \in 1..Len(pending), c \in Contents : authenticateResolved(i, c)
  \/ \E i \in 1..Len(pending), e \in Errors : authenticateRejected(i, e)
  \/ invalidateUnbound
  \/ invalidate
  \/ \E i \in 1..Len(pending) : invalidateResolved(i)
  \/ \E i \in 1..Len(pending), e \in Errors : invalidateRejected(i, e)
  \/ restoreNothing
  \/ restore
  \/ \E i \in 1..Len(pending), c \in Contents : restoreResolved(i, c)
  \/ \E i \in 1..Len(pending) : restoreRejected(i)
  \/ \E payload \in Snapshots : storeDataCleared(payload)
  \/ \E payload \in Snapshots : storeDataUpdated(payload)
  \/ \E i \in 1..Len(pending), c \in Contents : storeRestoreResolved(i, c)
  \/ \E i \in 1..Len(pending) : storeRestoreRejected(i)
  \/ \E a \in Factories, c \in Contents : authenticatorDataUpdated(a, c)
  \/ \E a \in Factories : authenticatorDataInvalidated(a)
  \/ \E a \in Factories : authenticatorUnheard(a)

Spec == Init /\ [][Next]_vars

TypeOK ==
  /\ isAuthenticated \in BOOLEAN
  /\ authenticatorFactory \in Factories \cup {Null}
  /\ content \in Contents
  /\ store \in Snapshots
  /\ updatedListeners \in [Factories -> Nat]
  /\ invalidatedListeners \in [Factories -> Nat]
  /\ storeListeners \in Nat
  /\ Len(pending) <= MaxPending

\* ------------------------------------------------- vocabulary of the claims

\* The session is Unauthenticated: nothing bound, no content.
Unauthenticated ==
  ~isAuthenticated /\ authenticatorFactory = Null /\ content = Empty

\* {authenticatorFactory: f} merged with the content c, stated for the claims
\* independently of Extend: the keys of c keep their values.
Merged(f, c) ==
  [k \in {"authenticatorFactory"} \cup DOMAIN c |->
     IF k \in DOMAIN c THEN c[k] ELSE f]

\* The snapshot without its authenticatorFactory field.
Remainder(snapshot) ==
  [k \in { x \in DOMAIN snapshot : x # "authenticatorFactory" } |-> snapshot[k]]

\* How often the handler that ran last emitted the session event `name`.
Emissions(name) ==
  Cardinality({ i \in 1..Len(effects) :
                  effects[i].kind = "event" /\ effects[i].name = name })

AuthenticationSucceeded == Emissions("sessionAuthenticationSucceeded")

InvalidationSucceeded == Emissions("sessionInvalidationSucceeded")

\* The handlers that run setup, and those that run clear.
SetupRan ==
  last.op \in {"authenticate.resolved", "restore.resolved",
               "store.restore.resolved", "authenticator.updated"}

ClearRan ==
  last.op \in {"authenticate.rejected", "invalidate.resolved", "store.cleared",
               "store.restore.rejected", "authenticator.invalidated"}

\* ---------------------------------------------------------------------- C1

\* C1 (invariant I1 / P1): in every reachable state isAuthenticated is true
\* if and only if authenticatorFactory is non-null.  The code breaks it: clear
\* leaves the session's listeners on the Authenticator, whose next
\* sessionDataUpdated runs setup(null, content).
C1_AuthenticatedIffFactory ==
  isAuthenticated <=> authenticatorFactory # Null

\* ---------------------------------------------------------------------- C2

\* C2 as claimed: when authenticate was called on an Unauthenticated session
\* and its Authenticator resolves with c, then as the result resolves the
\* session is Authenticated with that factory and content, the Store holds
\* {authenticatorFactory: factory} merged with c, and
\* sessionAuthenticationSucceeded was emitted exactly once for the call.
C2_SucceededExactlyOnce ==
  (last.op = "authenticate.resolved" /\ last.calledUnauthenticated) =>
    /\ isAuthenticated
    /\ authenticatorFactory = last.factory
    /\ content = last.resolved
    /\ store = Merged(last.factory, last.resolved)
    /\ AuthenticationSucceeded = 1

\* C2 as amended: the same state as the result resolves, and
\* sessionAuthenticationSucceeded emitted exactly once for the call if the
\* session was still Unauthenticated when the resolution was handled, and not
\* at all if it had become Authenticated in the meantime.
C2_AuthenticateResolved ==
  last.op = "authenticate.resolved" =>
    /\ isAuthenticated
    /\ authenticatorFactory = last.factory
    /\ content = last.resolved
    /\ store = Merged(last.factory, last.resolved)
    /\ AuthenticationSucceeded = (IF last.wasAuthenticated THEN 0 ELSE 1)
    /\ effects[Len(effects)] = Settle("resolve", Null, Seen)
    /\ \A i \in 1..Len(effects) : effects[i].seen = Seen

C2_Witness ==
  /\ last.op = "authenticate.resolved"
  /\ last.calledUnauthenticated
  /\ ~last.wasAuthenticated
  /\ "token" \in DOMAIN content
  /\ AuthenticationSucceeded = 1

\* ---------------------------------------------------------------------- C3

\* C3: when the Authenticator rejects an authenticate call with e, whatever
\* the session was before, the session is Unauthenticated and the Store is
\* cleared when sessionAuthenticationFailed(e) is emitted, the result rejects
\* with exactly e, and the failure emits nothing else: neither
\* sessionAuthenticationSucceeded nor sessionInvalidationSucceeded.
C3_AuthenticateRejected ==
  last.op = "authenticate.rejected" =>
    /\ Unauthenticated
    /\ store = Empty
    /\ effects = << Event("sessionAuthenticationFailed", last.error, Seen),
                    Settle("reject", last.error, Seen) >>

C3_Witness ==
  /\ last.op = "authenticate.rejected"
  /\ last.wasAuthenticated
  /\ last.error = "e2"

\* ---------------------------------------------------------------------- C4

\* C4: when the invalidate of the Authenticator the session was bound to
\* resolves, then as the result resolves the session is Unauthenticated, the
\* Store is cleared, no sessionDataUpdated listener of the session remains on
\* that Authenticator, and sessionInvalidationSucceeded was emitted once if the
\* session was still Authenticated when the resolution was handled, and not at
\* all otherwise.
C4_InvalidateResolved ==
  last.op = "invalidate.resolved" =>
    /\ Unauthenticated
    /\ store = Empty
    /\ updatedListeners[last.factory] = 0
    /\ InvalidationSucceeded = (IF last.wasAuthenticated THEN 1 ELSE 0)
    /\ effects[Len(effects)] = Settle("resolve", Null, Seen)
    /\ Len(effects) = InvalidationSucceeded + 1

C4_Witness ==
  /\ last.op = "invalidate.resolved"
  /\ last.wasAuthenticated
  /\ InvalidationSucceeded = 1

\* ---------------------------------------------------------------------- C5

\* C5: handling the rejection of the Authenticator's invalidate with e leaves
\* isAuthenticated, authenticatorFactory, content, the Store and the listeners
\* on the Authenticators unchanged (a session that was Authenticated remains
\* so), emits sessionInvalidationFailed(e) and nothing else, and rejects the
\* result with exactly e.
C5_InvalidateRejectedFrame ==
  [][ last'.op = "invalidate.rejected" =>
        /\ UNCHANGED <<isAuthenticated, authenticatorFactory, content, store,
                       updatedListeners, invalidatedListeners>>
        /\ (isAuthenticated => isAuthenticated')
        /\ effects' = << Event("sessionInvalidationFailed", last'.error, Seen'),
                         Settle("reject", last'.error, Seen') >> ]_vars

C5_Witness ==
  /\ last.op = "invalidate.rejected"
  /\ isAuthenticated
  /\ authenticatorFactory = last.factory
  /\ updatedListeners[last.factory] = 1
  /\ store # Empty

\* ---------------------------------------------------------------------- C6

\* C6 (invariant I2): in every reachable state, whenever isAuthenticated is
\* true the Store's snapshot equals content merged with {authenticatorFactory},
\* and whenever isAuthenticated is false the Store is cleared.
C6_StoreMirrorsSession ==
  /\ isAuthenticated => store = Merged(authenticatorFactory, content)
  /\ ~isAuthenticated => store = Empty

\* C6, the part of it that stands apart from the snapshot a Store brings along
\* before the first restore() and from the factory-less state of C1: whenever
\* the session is Authenticated with a factory bound, the Store's snapshot
\* equals content merged with {authenticatorFactory}.  The code breaks this
\* too: the rejection handler of restore() clears the Store alone.
C6_StoreMirrorsAuthenticated ==
  (isAuthenticated /\ authenticatorFactory # Null) =>
    store = Merged(authenticatorFactory, content)

\* ---------------------------------------------------------------------- C7

\* C7: sessionAuthenticationSucceeded is emitted only in a step in which
\* isAuthenticated changes from false to true and shouldTrigger is true, and
\* then once; a setup performed while the session is already Authenticated
\* emits none.
C7_SucceededOnEdge ==
  [][ /\ AuthenticationSucceeded' > 0 =>
           /\ ~isAuthenticated
           /\ isAuthenticated'
           /\ last'.trigger
           /\ SetupRan'
           /\ AuthenticationSucceeded' = 1
      /\ (SetupRan' /\ isAuthenticated) => AuthenticationSucceeded' = 0 ]_vars

C7_Witness ==
  /\ last.op \in {"authenticate.resolved", "store.restore.resolved"}
  /\ last.trigger
  /\ last.wasAuthenticated
  /\ authenticatorFactory = last.factory
  /\ AuthenticationSucceeded = 0

\* ---------------------------------------------------------------------- C8

\* C8: a clear emits sessionInvalidationSucceeded if and only if shouldTrigger
\* is true and the session was Authenticated immediately before it, and then
\* once; every clear ends in the same Unauthenticated state with the Store
\* cleared, so a clear of a session that is already cleared changes nothing
\* and emits nothing; and the event is emitted only in a step that takes
\* isAuthenticated from true to false, so between two emissions the session
\* has been Authenticated again.
C8_InvalidationOnEdge ==
  [][ /\ ClearRan' =>
           /\ Unauthenticated'
           /\ store' = Empty
           /\ InvalidationSucceeded' =
                (IF last'.trigger /\ isAuthenticated THEN 1 ELSE 0)
           /\ (Unauthenticated /\ store = Empty) =>
                 /\ UNCHANGED <<isAuthenticated, authenticatorFactory, content, store>>
                 /\ InvalidationSucceeded' = 0
      /\ InvalidationSucceeded' > 0 =>
           (ClearRan' /\ isAuthenticated /\ ~isAuthenticated') ]_vars

C8_Witness ==
  /\ last.op = "invalidate.resolved"
  /\ ~last.wasAuthenticated
  /\ last.trigger
  /\ InvalidationSucceeded = 0

\* ---------------------------------------------------------------------- C9

\* C9: restore() on a snapshot carrying authenticatorFactory f asks the
\* Authenticator of f to restore the snapshot minus that field; when that
\* resolves with c the session is Authenticated with factory f and content c,
\* the Store holds {authenticatorFactory: f} merged with c, the result
\* resolves, and no sessionAuthenticationSucceeded (no event at all) is emitted.
C9_RestoreSilent ==
  /\ last.op = "restore" =>
       /\ FactoryOf(store) = last.factory
       /\ last.data = Remainder(store)
       /\ pending[Len(pending)].op = "restore"
       /\ pending[Len(pending)].factory = store["authenticatorFactory"]
  /\ last.op = "restore.resolved" =>
       /\ isAuthenticated
       /\ authenticatorFactory = last.factory
       /\ content = last.resolved
       /\ store = Merged(last.factory, last.resolved)
       /\ effects = << Settle("resolve", Null, Seen) >>

C9_Witness ==
  /\ last.op = "restore.resolved"
  /\ ~last.wasAuthenticated
  /\ "token" \in DOMAIN content
  /\ AuthenticationSucceeded = 0

\* --------------------------------------------------------------------- C10

\* C10: when restore() fails, because the snapshot has no authenticatorFactory
\* (then at once, without calling an Authenticator) or because the
\* Authenticator's restore rejects, the Store is cleared, the result rejects,
\* no session event is emitted, and the failure path does not modify
\* isAuthenticated, authenticatorFactory or content: an Unauthenticated
\* session stays Unauthenticated.
C10_RestoreFailed ==
  [][ last'.op \in {"restore.nothing", "restore.rejected"} =>
        /\ store' = Empty
        /\ UNCHANGED <<isAuthenticated, authenticatorFactory, content>>
        /\ (Unauthenticated => Unauthenticated')
        /\ effects' = << Settle("reject", Null, Seen') >>
        /\ last'.op = "restore.nothing" => pending' = pending ]_vars

C10_Witness ==
  /\ last.op = "restore.rejected"
  /\ Unauthenticated
  /\ store = Empty
  /\ effects = << Settle("reject", Null, Seen) >>

\* --------------------------------------------------------------------- C11

\* C11: when the Store pushes sessionDataUpdated with a payload that carries
\* no authenticatorFactory, the session is Unauthenticated with the Store
\* cleared as soon as the handler returns (no Authenticator is asked); it
\* emits sessionInvalidationSucceeded exactly once if the session was
\* Authenticated and nothing if it was Unauthenticated.
C11_StorePushWithoutFactory ==
  [][ last'.op = "store.cleared" =>
        /\ FactoryOf(last'.payload) = Null
        /\ Unauthenticated'
        /\ store' = Empty
        /\ pending' = pending
        /\ effects' = (IF isAuthenticated
                       THEN << Event("sessionInvalidationSucceeded", Null, Seen') >>
                       ELSE << >>) ]_vars

C11_Witness ==
  /\ last.op = "store.cleared"
  /\ last.wasAuthenticated
  /\ Unauthenticated
  /\ store = Empty
  /\ InvalidationSucceeded = 1

\* --------------------------------------------------------------------- C12

\* C12: when the Store pushes sessionDataUpdated with a payload carrying
\* authenticatorFactory f, the handler asks the Authenticator of f to restore
\* the payload minus that field and changes nothing else; when that resolves
\* with c the session is set up with f and c and emits
\* sessionAuthenticationSucceeded if and only if it was Unauthenticated at that
\* moment; when it rejects the session is cleared (Unauthenticated, Store
\* cleared) and emits sessionInvalidationSucceeded if and only if it was
\* Authenticated at that moment.  The Store handler is registered once at
\* construction and no operation removes or repeats it.
C12_StorePushWithFactory ==
  [][ /\ last'.op = "store.updated" =>
           /\ last'.payload \in Snapshots
           /\ "authenticatorFactory" \in DOMAIN last'.payload
           /\ last'.factory = last'.payload["authenticatorFactory"]
           /\ last'.data = Remainder(last'.payload)
           /\ pending' = pending \o
                << [op |-> "store.restore", factory |-> last'.factory,
                    calledUnauthenticated |-> FALSE] >>
           /\ UNCHANGED <<isAuthenticated, authenticatorFactory, content, store,
                          updatedListeners, invalidatedListeners>>
           /\ effects' = << >>
      /\ last'.op = "store.restore.resolved" =>
           /\ isAuthenticated'
           /\ authenticatorFactory' = last'.factory
           /\ content' = last'.resolved
           /\ store' = Merged(last'.factory, last'.resolved)
           /\ effects' = (IF isAuthenticated
                          THEN << >>
                          ELSE << Event("sessionAuthenticationSucceeded", Null, Seen') >>)
      /\ last'.op = "store.restore.rejected" =>
           /\ Unauthenticated'
           /\ store' = Empty
           /\ effects' = (IF isAuthenticated
                          THEN << Event("sessionInvalidationSucceeded", Null, Seen') >>
                          ELSE << >>)
      /\ storeListeners = 1
      /\ storeListeners' = 1 ]_vars

C12_Witness ==
  /\ last.op = "store.restore.rejected"
  /\ last.wasAuthenticated
  /\ Unauthenticated
  /\ InvalidationSucceeded = 1
  /\ storeListeners = 1

\* --------------------------------------------------------------------- C13

\* C13: the Authenticator the session is bound to has the session's
\* sessionDataUpdated listener, and when it pushes sessionDataUpdated(c) while
\* the session is Authenticated with factory f, the session stays
\* Authenticated with the same f, its content becomes c, the Store is
\* rewritten to {authenticatorFactory: f} merged with c, and nothing is
\* emitted (no sessionAuthenticationSucceeded).
C13_AuthenticatorRefresh ==
  [][ /\ (isAuthenticated /\ authenticatorFactory # Null) =>
           updatedListeners[authenticatorFactory] > 0
      /\ ( /\ last'.op = "authenticator.updated"
           /\ isAuthenticated
           /\ authenticatorFactory = last'.factory ) =>
           /\ isAuthenticated'
           /\ authenticatorFactory' = authenticatorFactory
           /\ content' = last'.resolved
           /\ store' = Merged(authenticatorFactory, last'.resolved)
           /\ effects' = << >>
           /\ pending' = pending ]_vars

C13_Witness ==
  /\ last.op = "authenticator.updated"
  /\ last.wasAuthenticated
  /\ last.factory = authenticatorFactory
  /\ content = last.resolved
  /\ "token" \in DOMAIN content
  /\ "authenticatorFactory" \in DOMAIN content

\* --------------------------------------------------------------------- C14

\* C14: when the Authenticator the session is bound to pushes
\* sessionDataInvalidated while the session is Authenticated, the session
\* becomes Unauthenticated with the Store cleared and emits
\* sessionInvalidationSucceeded exactly once, and no Authenticator's
\* invalidate is called.
C14_AuthenticatorInvalidation ==
  [][ /\ (isAuthenticated /\ authenticatorFactory # Null) =>
           invalidatedListeners[authenticatorFactory] > 0
      /\ ( /\ last'.op = "authenticator.invalidated"
           /\ isAuthenticated
           /\ authenticatorFactory = last'.factory ) =>
           /\ Unauthenticated'
           /\ store' = Empty
           /\ effects' = << Event("sessionInvalidationSucceeded", Null, Seen') >>
           /\ pending' = pending ]_vars

C14_Witness ==
  /\ last.op = "authenticator.invalidated"
  /\ last.wasAuthenticated
  /\ Unauthenticated
  /\ store = Empty
  /\ InvalidationSucceeded = 1

\* --------------------------------------------------------------------- C15

\* The Authenticators that carry a listener of the session.
Observed ==
  { a \in Factories : updatedListeners[a] > 0 \/ invalidatedListeners[a] > 0 }

\* C15 (invariant I3): at most one Authenticator is bound at a time: in every
\* reachable state the session's listeners are registered on at most one
\* Authenticator.  The code breaks it: bindToAuthenticatorEvents removes the
\* listeners of the Authenticator it is about to bind only, so a setup with
\* another factory leaves those of the previous Authenticator in place.
C15_AtMostOneBound ==
  Cardinality(Observed) <= 1

\* --------------------------------------------------------------------- C16

\* C16: handlers never accumulate: in every reachable state every
\* Authenticator has at most one session listener for sessionDataUpdated and
\* at most one for sessionDataInvalidated, and a setup leaves exactly one of
\* each on the Authenticator it binds.
C16_NoAccumulation ==
  /\ \A a \in Factories : updatedListeners[a] <= 1 /\ invalidatedListeners[a] <= 1
  /\ (SetupRan /\ ~last.threw) =>
       /\ updatedListeners[authenticatorFactory] = 1
       /\ invalidatedListeners[authenticatorFactory] = 1

C16_Witness ==
  /\ last.op = "authenticator.updated"
  /\ last.wasAuthenticated
  /\ last.factory = authenticatorFactory
  /\ updatedListeners[authenticatorFactory] = 1
  /\ invalidatedListeners[authenticatorFactory] = 1

\* --------------------------------------------------------------------- C17

\* C17: the session observes an Authenticator only while it is Authenticated:
\* in every reachable state where isAuthenticated is false no session listener
\* for sessionDataUpdated or sessionDataInvalidated is registered on any
\* Authenticator.  The code breaks it: clear removes no listener, and the
\* resolution of invalidate removes the sessionDataUpdated listener only.
C17_ObservedOnlyWhileAuthenticated ==
  ~isAuthenticated => Observed = {}

\* --------------------------------------------------------------------- C18

\* C18: overlapping authenticate calls are neither coalesced nor serialized:
\* every call starts a promise of its own Authenticator, whatever is pending
\* already; any pending call may resolve next, whatever its place in the order
\* of the calls, and the session and the Store are then those of that call, so
\* that after two resolutions they are those of the call that settled last;
\* of two calls that resolve one right after the other the second emits no
\* sessionAuthenticationSucceeded, the first emits it if the session was
\* Unauthenticated.
C18_OverlappingAuthenticate ==
  [][ /\ last'.op = "authenticate" =>
           /\ Len(pending') = Len(pending) + 1
           /\ pending'[Len(pending')].op = "authenticate"
           /\ pending'[Len(pending')].factory = last'.factory
           /\ SubSeq(pending', 1, Len(pending)) = pending
      /\ last'.op = "authenticate.resolved" =>
           /\ \E i \in 1..Len(pending) :
                /\ pending[i].op = "authenticate"
                /\ pending[i].factory = last'.factory
                /\ pending' = SubSeq(pending, 1, i - 1)
                                \o SubSeq(pending, i + 1, Len(pending))
           /\ authenticatorFactory' = last'.factory
           /\ content' = last'.resolved
           /\ store' = Merged(last'.factory, last'.resolved)
           /\ AuthenticationSucceeded' = (IF isAuthenticated THEN 0 ELSE 1)
           /\ last.op = "authenticate.resolved" => AuthenticationSucceeded' = 0 ]_vars

\* The second of two calls made on an Unauthenticated session has resolved,
\* with another factory than the first, and has emitted nothing.
C18_Witness ==
  /\ last.op = "authenticate.resolved"
  /\ last.calledUnauthenticated
  /\ last.wasAuthenticated
  /\ last.factory = "A"
  /\ authenticatorFactory = "A"
  /\ "token" \in DOMAIN store
  /\ AuthenticationSucceeded = 0

\* --------------------------------------------------------------------- C19

\* C19: immediately after any setup(f, c), for every content c, the Store
\* snapshot's authenticatorFactory field equals the session's
\* authenticatorFactory f and the remaining fields equal c, so that a
\* following restore() looks up the Authenticator of f and passes it exactly
\* c; immediately after any clear the Store snapshot is empty.  The code
\* breaks it for a content that has an authenticatorFactory key of its own:
\* Ember.$.extend lets the content's value overwrite the session's factory.
C19_RoundTrip ==
  /\ SetupRan =>
       /\ FactoryOf(store) = authenticatorFactory
       /\ Remainder(store) = content
  /\ ClearRan => store = Empty

\* --------------------------------------------------------------------- C20

\* The calls that return a result, the handlers that settle one when the
\* Authenticator's promise settles, and the calls that fail at once.
CallOps == {"authenticate", "invalidate", "restore"}

ResolvingOps == {"authenticate.resolved", "invalidate.resolved", "restore.resolved"}

RejectingOps == {"authenticate.rejected", "invalidate.rejected", "restore.rejected"}

FailingOps == {"restore.nothing", "invalidate.unbound"}

\* The call that, depending on the build, throws before it returns a result
\* or returns one that rejects at once.
ThrowingOps == {"authenticate.empty"}

CallOf(op) ==
  IF op \in {"authenticate.resolved", "authenticate.rejected"} THEN "authenticate"
  ELSE IF op \in {"invalidate.resolved", "invalidate.rejected"} THEN "invalidate"
  ELSE "restore"

\* How many results the handler that ran last settled.
Settlements ==
  Cardinality({ i \in 1..Len(effects) : effects[i].kind = "settle" })

\* C20: every call to authenticate, invalidate or restore settles exactly
\* once: the call starts one promise of the Authenticator and settles nothing
\* (or, with nothing to call, rejects at once, unless an assertion throws out
\* of the call before any result is returned); the handler of that promise's
\* settlement settles the result exactly once, resolving on resolution and
\* rejecting on rejection, after every event it emits, and uses the promise
\* up without starting another (no retry); no other handler settles a result
\* or starts such a call.
C20_SettlesExactlyOnce ==
  [][ /\ last'.op \in CallOps =>
           /\ Settlements' = 0
           /\ Len(pending') = Len(pending) + 1
           /\ SubSeq(pending', 1, Len(pending)) = pending
           /\ pending'[Len(pending')].op = last'.op
      /\ last'.op \in ResolvingOps \cup RejectingOps =>
           /\ Settlements' = 1
           /\ effects'[Len(effects')].kind = "settle"
           /\ effects'[Len(effects')].name =
                (IF last'.op \in ResolvingOps THEN "resolve" ELSE "reject")
           /\ effects'[Len(effects')].arg = last'.error
           /\ \E i \in 1..Len(pending) :
                /\ pending[i].op = CallOf(last'.op)
                /\ pending' = SubSeq(pending, 1, i - 1)
                                \o SubSeq(pending, i + 1, Len(pending))
      /\ last'.op \in FailingOps =>
           /\ Settlements' = 1
           /\ Len(effects') = 1
           /\ effects'[1].name = "reject"
           /\ pending' = pending
      /\ last'.op \in ThrowingOps =>
           /\ Settlements' = Len(effects')
           /\ Settlements' <= 1
           /\ \A i \in 1..Len(effects') : effects'[i].name = "reject"
           /\ pending' = pending
      /\ last'.op \notin CallOps \cup ResolvingOps \cup RejectingOps
                         \cup FailingOps \cup ThrowingOps =>
           /\ Settlements' = 0
           /\ \A i \in 1..Len(pending') :
                pending'[i].op \in CallOps =>
                  \E j \in 1..Len(pending) : pending[j] = pending'[i]
           /\ Len(pending') <= Len(pending) + 1 ]_vars

C20_Witness ==
  /\ last.op = "authenticate.rejected"
  /\ Len(effects) = 2
  /\ effects[1].kind = "event"
  /\ effects[2] = Settle("reject", last.error, Seen)
  /\ Len(pending) > 0

====
